---- MODULE Spec2Model ----
(***************************************************************************)
(* Model of the image ingestion script (upload_images.js, kept as          *)
(* src/unnamed/part_000): walkAndUpload walks the category tree and, for   *)
(* every image file, processFile reads it, derives the variants with      *)
(* sharp, uploads two of them to GridFS with uploadBufferToGridFS and      *)
(* inserts one document into the imagesMeta collection.                    *)
(*                                                                         *)
(* One action is one stretch of code between two awaits (or one           *)
(* synchronous loop step of the walker).  The outcome of every call into  *)
(* the environment (file system, sharp, MongoDB driver) is drawn with \E. *)
(* Names are sequences of one-character strings, so that the extension    *)
(* test of the walker is computed and not assumed.                         *)
(*                                                                         *)
(* The read side (src/server/server.js) is modelled next to it: start()    *)
(* connects while app.listen already accepts requests, and the two GET     *)
(* handlers answer from the stores the script fills.                       *)
(***************************************************************************)
EXTENDS Integers, Sequences, FiniteSets, TLC

\* ------------------------------------------------------------------ bounds
\* Largest number of directory entries the file system holds in one run.
MaxNodes == 4
\* Largest number of GridFS chunks one encoded buffer fills.
MaxChunks == 1
\* Widest source image, in pixels, of the runs over one image of any width.
MaxWidth == 1700
\* Largest number of directory entries of a tree the script is run over twice.
MaxRerunNodes == 3
\* Largest number of requests the server receives.
MaxRequests == 2

\* ------------------------------------------------------------- JS values
\* null; a missing level of the hierarchy.  No directory entry has an empty
\* name, so the empty name is free to stand for it (both are falsy in JS).
Null == <<>>
\* The value of a variable that was declared and never assigned.
Undefined == [undefined |-> TRUE]
\* x || null
OrNull(x) == IF x = <<>> THEN Null ELSE x

Min(a, b) == IF a <= b THEN a ELSE b

\* ------------------------------------------------------------ file names
\* String.prototype.toLowerCase on one character, for the characters of the
\* names of the model.
LowerChar(c) ==
  CASE c = "J" -> "j" [] c = "P" -> "p" [] c = "G" -> "g" [] c = "E" -> "e"
    [] c = "N" -> "n" [] c = "W" -> "w" [] c = "B" -> "b" [] c = "R" -> "r"
    [] c = "V" -> "v" [] OTHER -> c

Lower(s) == [i \in 1..Len(s) |-> LowerChar(s[i])]

\* The alternatives of the extension pattern (jpg|jpeg|png|webp).
ImageExts ==
  { <<"j", "p", "g">>, <<"j", "p", "e", "g">>, <<"p", "n", "g">>,
    <<"w", "e", "b", "p">> }

\* The suffix of s matched by /\.(jpg|jpeg|png|webp)$/i, or <<>> when the
\* pattern does not match: a dot followed by one alternative, at the end.
ExtMatch(s) ==
  LET hits == { e \in ImageExts :
                  /\ Len(s) >= Len(e) + 1
                  /\ s[Len(s) - Len(e)] = "."
                  /\ Lower(SubSeq(s, Len(s) - Len(e) + 1, Len(s))) = e }
  IN IF hits = {} THEN <<>> ELSE <<".">> \o (CHOOSE e \in hits : TRUE)

\* Mutant of IsImage: the pattern lacks the i flag.
IsImageCaseSensitive(f) ==
  \E e \in ImageExts :
    /\ Len(f) >= Len(e) + 1
    /\ SubSeq(f, Len(f) - Len(e), Len(f)) = <<".">> \o e

\* /\.(jpg|jpeg|png|webp)$/i.test(f)
IsImage(f) == ExtMatch(f) # <<>>

\* filename.replace(/\.(jpg|jpeg|png|webp)$/i, "")
StripExt(f) == SubSeq(f, 1, Len(f) - Len(ExtMatch(f)))

\* ----------------------------------------------------------- file system
\* The directory entries of the model, as readdirSync names them and statSync
\* describes them, with the width of the image a file holds, in the order in
\* which the file system lists them (by name): two plain directories, two
\* image files (one narrower than the thumbnail, one wider than the full
\* variant and with its extension in upper case), a file that is no image and
\* a directory whose name carries an image extension.
EntryPool ==
  << [name |-> <<"R">>, isDirectory |-> TRUE, width |-> 0],
     [name |-> <<"V">>, isDirectory |-> TRUE, width |-> 0],
     [name |-> <<"a", ".", "j", "p", "g">>, isDirectory |-> FALSE, width |-> 400],
     [name |-> <<"b", ".", "P", "N", "G">>, isDirectory |-> FALSE, width |-> 2000],
     [name |-> <<"c", ".", "t", "x", "t">>, isDirectory |-> FALSE, width |-> 0],
     [name |-> <<"e", ".", "J", "p", "e", "g">>, isDirectory |-> TRUE, width |-> 0] >>

\* The listings of at most n entries drawn from the entries i, i+1, ... of the
\* pool, in the pool's order.
RECURSIVE ListingsFrom(_, _)
ListingsFrom(i, n) ==
  IF i > Len(EntryPool) \/ n = 0 THEN { <<>> }
  ELSE ListingsFrom(i + 1, n)
         \cup { <<EntryPool[i]>> \o l : l \in ListingsFrom(i + 1, n - 1) }

\* The listings of at most n entries: what readdirSync and statSync can
\* report of one directory when n entries are left of the bound.
Listings(n) == ListingsFrom(1, n)

\* Mutant of DirsOf: the directories come out in reverse order.
RECURSIVE DirsOfReversed(_)
DirsOfReversed(l) ==
  IF l = <<>> THEN <<>>
  ELSE DirsOfReversed(Tail(l))
         \o (IF Head(l).isDirectory THEN <<Head(l).name>> ELSE <<>>)

\* readdirSync(p).filter(f => statSync(join(p, f)).isDirectory())
RECURSIVE DirsOf(_)
DirsOf(l) ==
  IF l = <<>> THEN <<>>
  ELSE (IF Head(l).isDirectory THEN <<Head(l).name>> ELSE <<>>)
         \o DirsOf(Tail(l))

\* readdirSync(p).filter(f => /\.(jpg|jpeg|png|webp)$/i.test(f)).  The entry
\* keeps its kind: the filter does not look at it, readFileSync does.
RECURSIVE ImagesOf(_)
ImagesOf(l) ==
  IF l = <<>> THEN <<>>
  ELSE (IF IsImage(Head(l).name) THEN <<Head(l)>> ELSE <<>>)
         \o ImagesOf(Tail(l))

\* ------------------------------------------------------- variant encoder
ThumbWidth == 600
FullWidth == 1600
LqipWidth == 20

\* Mutant of ResizeNoEnlarge: withoutEnlargement is missing from the options.
ResizeEnlarging(w, target) == target

\* .resize({ width, withoutEnlargement: true }): never wider than the source.
ResizeNoEnlarge(w, target) == Min(w, target)

\* .resize({ width }): exactly the target width.
Resize(w, target) == target

\* ------------------------------------------------------------------ state
VARIABLES
  pc,          \* where the script is
  conn,        \* the MongoClient: "created", "connected", "failed"
  closeCalls,  \* how many times client.close() was called
  exitCode,    \* the exit status of the process, -1 while it runs
  nodes,       \* directory entries seen so far (bounded by MaxNodes)
  listCalls,   \* directories listed so far
  categories,  \* the categories still to visit
  subcategories, \* the subcategories still to visit in the current category
  subsubdirs,  \* the sub-subdirectories still to visit
  files,       \* the image entries still to process in the current leaf
  category,    \* loop variable of line 151, Null outside the loop
  subcat,      \* loop variable of line 162, Null outside the loop
  subsub,      \* loop variable of line 167, Null outside the loop
  pf,          \* the locals of the processFile call in flight
  up,          \* the upload stream of the uploadBufferToGridFS call in flight
  nextId,      \* the next ObjectId the driver generates
  bucketFiles, \* images.files: one document per completed upload
  bucketChunks, \* images.chunks: the chunks written, as {files_id, n}
  imagesMeta,  \* the imagesMeta collection, in insertion order
  log,         \* every processFile call so far, in call order, with its outcome
  fatal,       \* the failure the environment produced, "none" before any
  fs,          \* the directories listed so far: {path, listing}
  leaf,        \* the path of the directory whose files are being processed
  out,         \* what the script has written to the console, line by line
  prev,        \* the stores as an earlier run of the script left them
  sproc,       \* the server process: "connecting", "ready", "exited"
  db,          \* server.js line 15: the shared database handle
  bucket,      \* server.js line 15: the shared GridFS bucket handle
  req,         \* the request the server is handling
  served       \* the requests the server has finished with, in order

vars ==
  << pc, conn, closeCalls, exitCode, nodes, listCalls, categories,
     subcategories, subsubdirs, files, category, subcat, subsub, pf, up,
     nextId, bucketFiles, bucketChunks, imagesMeta, log, fatal, fs, leaf,
     out, prev, sproc, db, bucket, req, served >>

walkerVars ==
  << categories, subcategories, subsubdirs, files, category, subcat, subsub, leaf >>
storeVars == << nextId, bucketFiles, bucketChunks, imagesMeta >>
clientVars == << conn, closeCalls, exitCode >>
fsVars == << nodes, listCalls, fs >>
serverVars == << sproc, db, bucket, req, served >>
\* What a step of the ingestion script cannot touch: the record of an earlier
\* run and the server process.
elsewhere == << prev, serverVars >>

NoFile == [none |-> TRUE]
NoUpload == [none |-> TRUE]
NoRun == [none |-> TRUE]
NoReq == [none |-> TRUE]

\* console.log and console.error: one line of the console.
Line(stream, text) == [stream |-> stream, text |-> text]
FileLine(stream, text, f) == [stream |-> stream, text |-> text, file |-> f]

Init ==
  /\ pc = "connect"
  /\ conn = "created"
  /\ closeCalls = 0
  /\ exitCode = -1
  /\ nodes = 0
  /\ listCalls = 0
  /\ categories = <<>>
  /\ subcategories = <<>>
  /\ subsubdirs = <<>>
  /\ files = <<>>
  /\ category = Null
  /\ subcat = Null
  /\ subsub = Null
  /\ pf = NoFile
  /\ up = NoUpload
  /\ nextId = 1
  /\ bucketFiles = <<>>
  /\ bucketChunks = {}
  /\ imagesMeta = <<>>
  /\ log = <<>>
  /\ fatal = "none"
  /\ fs = {}
  /\ leaf = <<>>
  /\ out = <<>>
  /\ prev = NoRun
  /\ sproc = "connecting"
  /\ db = Undefined
  /\ bucket = Undefined
  /\ req = NoReq
  /\ served = <<>>

\* Mutant of TopLevelCatch: the handler logs the error and lets the process
\* end on its own, with status 0.
TopLevelCatchExitZero ==
  /\ exitCode' = 0
  /\ pc' = "exited"
  /\ out' = Append(out, Line("error", "FATAL SCRIPT ERROR"))

\* Lines 190-194: the handler of the rejected promise of walkAndUpload;
\* process.exit(1).
TopLevelCatch ==
  /\ exitCode' = 1
  /\ pc' = "exited"
  /\ out' = Append(out, Line("error", "FATAL SCRIPT ERROR"))

\* The outcome of the last processFile call becomes st.
SetOutcome(l, st) == [l EXCEPT ![Len(l)].st = st]

\* Mutant of Throw: the error is caught per file, as a read error is, and the
\* walker goes on with the next file.
ThrowCaughtPerFile ==
  /\ pc' = "forFile"
  /\ exitCode' = exitCode
  /\ log' = SetOutcome(log, "failed")
  /\ pf' = NoFile
  /\ up' = NoUpload
  /\ out' = Append(out, Line("error", "FAILED"))

\* An exception leaves processFile: nothing catches it before the promise of
\* walkAndUpload, which is rejected, and the handler of line 190 runs.
Throw ==
  /\ TopLevelCatch
  /\ log' = SetOutcome(log, "failed")
  /\ pf' = NoFile
  /\ up' = NoUpload

\* ------------------------------------------------------ walkAndUpload
\* await client.connect() resolves.
Connect ==
  /\ pc = "connect"
  /\ conn' = "connected"
  /\ pc' = "listRoot"
  /\ UNCHANGED << closeCalls, exitCode, fsVars, walkerVars, pf, up, storeVars, log,
                  fatal >>
  /\ out' = Append(out, Line("log", "Successfully connected to MongoDB."))
  /\ UNCHANGED elsewhere

\* await client.connect() rejects (refused, or the selection timeout ran
\* out): the catch block of line 137 is entered.
ConnectFail ==
  /\ pc = "connect"
  /\ conn' = "failed"
  /\ fatal' = "connect"
  /\ pc' = "connFailed"
  /\ UNCHANGED << closeCalls, exitCode, fsVars, walkerVars, pf, up, storeVars, log >>
  /\ UNCHANGED << out, elsewhere >>

\* Mutant of ConnectCatch: the catch block closes the client and does not
\* leave the process, so walkAndUpload goes on to line 145.
ConnectCatchNoExit ==
  /\ pc = "connFailed"
  /\ closeCalls' = closeCalls + 1
  /\ pc' = "listRoot"
  /\ UNCHANGED << conn, exitCode, fsVars, walkerVars, pf, up, storeVars, log, fatal >>
  /\ out' = Append(out, Line("error", "FATAL CONNECTION ERROR"))
  /\ UNCHANGED elsewhere

\* The catch block of the connection: await client.close(); process.exit(1).
ConnectCatch ==
  /\ pc = "connFailed"
  /\ closeCalls' = closeCalls + 1
  /\ exitCode' = 1
  /\ pc' = "exited"
  /\ UNCHANGED << conn, fsVars, walkerVars, pf, up, storeVars, log, fatal >>
  /\ out' = Append(out, Line("error", "FATAL CONNECTION ERROR"))
  /\ UNCHANGED elsewhere

\* What the file system holds at path p, once it has been listed.
Listed(p) == \E d \in fs : d.path = p
ListingAt(p) == (CHOOSE d \in fs : d.path = p).listing

\* readdirSync and statSync answer for the directory at path p: a listing
\* within the bound, remembered as part of the file system.  The tree does
\* not change under the script: a directory listed before lists the same.
ReadDir(p, l) ==
  /\ Listed(p) => l = ListingAt(p)
  /\ nodes' = nodes + Len(l)
  /\ listCalls' = listCalls + 1
  /\ fs' = fs \cup { [path |-> p, listing |-> l] }

\* Line 149: the directories of the root become the categories; files lying
\* in the root are dropped by the filter.
ListRoot ==
  /\ pc = "listRoot"
  /\ \E l \in Listings(MaxNodes - nodes) :
       /\ ReadDir(<<>>, l)
       /\ categories' = DirsOf(l)
  /\ pc' = "forCategory"
  /\ UNCHANGED << clientVars, subcategories, subsubdirs, files, category, subcat,
                  subsub, leaf, pf, up, storeVars, log, fatal >>
  /\ UNCHANGED << out, elsewhere >>

\* Mutant of EnterCategory: the image files of a category are queued whether
\* or not it has subdirectories, which are then not visited.
EnterCategoryLoose ==
  /\ pc = "forCategory"
  /\ categories # <<>>
  /\ category' = Head(categories)
  /\ categories' = Tail(categories)
  /\ \E l \in Listings(MaxNodes - nodes) :
       /\ ReadDir(<<Head(categories)>>, l)
       /\ files' = ImagesOf(l)
       /\ subcategories' = <<>>
       /\ pc' = "forFile"
  /\ subcat' = Null
  /\ subsub' = Null
  /\ leaf' = <<Head(categories)>>
  /\ UNCHANGED << clientVars, subsubdirs, pf, up, storeVars, log, fatal >>
  /\ UNCHANGED << out, elsewhere >>

\* Lines 151-156, 161: the next category is listed.  Without subdirectories it
\* is a leaf and its image entries are queued with no subcategory; otherwise
\* its subdirectories are queued and its own files are not looked at.
EnterCategory ==
  /\ pc = "forCategory"
  /\ categories # <<>>
  /\ category' = Head(categories)
  /\ categories' = Tail(categories)
  /\ \E l \in Listings(MaxNodes - nodes) :
       /\ ReadDir(<<Head(categories)>>, l)
       /\ IF Len(DirsOf(l)) = 0
            THEN /\ files' = ImagesOf(l)
                 /\ subcategories' = <<>>
                 /\ pc' = "forFile"
            ELSE /\ subcategories' = DirsOf(l)
                 /\ files' = <<>>
                 /\ pc' = "forSubcat"
  /\ subcat' = Null
  /\ subsub' = Null
  /\ leaf' = <<Head(categories)>>
  /\ UNCHANGED << clientVars, subsubdirs, pf, up, storeVars, log, fatal >>
  /\ UNCHANGED << out, elsewhere >>

\* Mutant of EnterSubcat: the test of line 166 is gone and every subcategory
\* is treated as a leaf.
EnterSubcatLoose ==
  /\ pc = "forSubcat"
  /\ subcategories # <<>>
  /\ subcat' = Head(subcategories)
  /\ subcategories' = Tail(subcategories)
  /\ \E l \in Listings(MaxNodes - nodes) :
       /\ ReadDir(<<category, Head(subcategories)>>, l)
       /\ files' = ImagesOf(l)
       /\ subsubdirs' = <<>>
       /\ pc' = "forFile"
  /\ subsub' = Null
  /\ leaf' = <<category, Head(subcategories)>>
  /\ UNCHANGED << clientVars, categories, category, pf, up, storeVars, log, fatal >>
  /\ UNCHANGED << out, elsewhere >>

\* Lines 162-166, 175-176: the next subcategory is listed.  With
\* sub-subdirectories those are queued; without, it is a leaf.
EnterSubcat ==
  /\ pc = "forSubcat"
  /\ subcategories # <<>>
  /\ subcat' = Head(subcategories)
  /\ subcategories' = Tail(subcategories)
  /\ \E l \in Listings(MaxNodes - nodes) :
       /\ ReadDir(<<category, Head(subcategories)>>, l)
       /\ IF Len(DirsOf(l)) > 0
            THEN /\ subsubdirs' = DirsOf(l)
                 /\ files' = <<>>
                 /\ pc' = "forSubsub"
            ELSE /\ files' = ImagesOf(l)
                 /\ subsubdirs' = <<>>
                 /\ pc' = "forFile"
  /\ subsub' = Null
  /\ leaf' = <<category, Head(subcategories)>>
  /\ UNCHANGED << clientVars, categories, category, pf, up, storeVars, log, fatal >>
  /\ UNCHANGED << out, elsewhere >>

\* Lines 167-169: the next sub-subdirectory is listed; every entry with an
\* image extension is queued, whatever its kind.
EnterSubsub ==
  /\ pc = "forSubsub"
  /\ subsubdirs # <<>>
  /\ subsub' = Head(subsubdirs)
  /\ subsubdirs' = Tail(subsubdirs)
  /\ \E l \in Listings(MaxNodes - nodes) :
       /\ ReadDir(<<category, subcat, Head(subsubdirs)>>, l)
       /\ files' = ImagesOf(l)
  /\ pc' = "forFile"
  /\ leaf' = <<category, subcat, Head(subsubdirs)>>
  /\ UNCHANGED << clientVars, categories, subcategories, category, subcat, pf, up,
                  storeVars, log, fatal >>
  /\ UNCHANGED << out, elsewhere >>

\* readdirSync or statSync throws (a directory that cannot be listed): nothing
\* in walkAndUpload catches it.
ListFail ==
  /\ \/ pc = "listRoot"
     \/ pc = "forCategory" /\ categories # <<>>
     \/ pc = "forSubcat" /\ subcategories # <<>>
     \/ pc = "forSubsub" /\ subsubdirs # <<>>
  /\ fatal' = "list"
  /\ TopLevelCatch
  /\ UNCHANGED << conn, closeCalls, fsVars, walkerVars, pf, up, storeVars, log >>
  /\ UNCHANGED elsewhere

\* The loop over a leaf's files is over: control is back in the loop around it.
LeaveLeaf ==
  /\ pc = "forFile"
  /\ files = <<>>
  /\ pc' = IF subsub # Null THEN "forSubsub"
           ELSE IF subcat # Null THEN "forSubcat"
           ELSE "forCategory"
  /\ UNCHANGED << clientVars, fsVars, walkerVars, pf, up, storeVars, log, fatal >>
  /\ UNCHANGED << out, elsewhere >>

\* The loop of line 167 is over.
LeaveSubcat ==
  /\ pc = "forSubsub"
  /\ subsubdirs = <<>>
  /\ subsub' = Null
  /\ pc' = "forSubcat"
  /\ UNCHANGED << clientVars, fsVars, categories, subcategories, subsubdirs, files,
                  category, subcat, leaf, pf, up, storeVars, log, fatal >>
  /\ UNCHANGED << out, elsewhere >>

\* The loop of line 162 is over.
LeaveCategory ==
  /\ pc = "forSubcat"
  /\ subcategories = <<>>
  /\ subcat' = Null
  /\ pc' = "forCategory"
  /\ UNCHANGED << clientVars, fsVars, categories, subcategories, subsubdirs, files,
                  category, subsub, leaf, pf, up, storeVars, log, fatal >>
  /\ UNCHANGED << out, elsewhere >>

\* Lines 186-188: the loop of line 151 is over; the client is closed, the
\* promise of walkAndUpload resolves and the process ends on its own.
Complete ==
  /\ pc = "forCategory"
  /\ categories = <<>>
  /\ category' = Null
  /\ closeCalls' = closeCalls + 1
  /\ exitCode' = 0
  /\ pc' = "exited"
  /\ UNCHANGED << conn, fsVars, categories, subcategories, subsubdirs, files,
                  subcat, subsub, leaf, pf, up, storeVars, log, fatal >>
  /\ out' = Append(out, Line("log", "COMPLETE: All images processed."))
  /\ UNCHANGED elsewhere

\* -------------------------------------------------------- processFile
\* Lines 157-159, 170-172, 177-179 and 59-60: the next image entry of the
\* leaf is handed to processFile with the loop variables of its directory.
StartFile ==
  /\ pc = "forFile"
  /\ files # <<>>
  /\ files' = Tail(files)
  /\ pf' = [ filename |-> Head(files).name,
             source |-> Head(files),
             originalBuffer |-> Undefined,
             category |-> category,
             subcategory |-> subcat,
             subsubcategory |-> subsub,
             sharpMeta |-> Undefined,
             thumbBuffer |-> Undefined,
             fullBuffer |-> Undefined,
             lqip |-> Undefined,
             thumbFile |-> Undefined,
             fullFile |-> Undefined ]
  /\ log' = Append(log, [ filename |-> Head(files).name,
                          dir |-> leaf,
                          category |-> category,
                          subcategory |-> subcat,
                          subsubcategory |-> subsub,
                          st |-> "processing",
                          thumbId |-> 0,
                          fullId |-> 0 ])
  /\ pc' = "read"
  /\ UNCHANGED << clientVars, fsVars, categories, subcategories, subsubdirs,
                  category, subcat, subsub, leaf, up, storeVars, fatal >>
  /\ out' = Append(out, FileLine("log", "Processing", Head(files).name))
  /\ UNCHANGED elsewhere

\* The earlier processFile calls for the file of the call in flight (calls
\* of an earlier run of the script over the same tree).
EarlierCalls ==
  { i \in 1..(Len(log) - 1) :
      log[i].dir = log[Len(log)].dir /\ log[i].filename = log[Len(log)].filename }

\* Line 65: fs.readFileSync(filePath) returns the bytes.  It cannot for a
\* directory whose name carries an image extension, nor for a file that could
\* not be read before: the tree does not change.
ReadFile ==
  /\ pc = "read"
  /\ ~pf.source.isDirectory
  /\ \A i \in EarlierCalls : log[i].st # "skipped"
  /\ pf' = [pf EXCEPT !.originalBuffer = [width |-> pf.source.width]]
  /\ pc' = "metadata"
  /\ UNCHANGED << clientVars, fsVars, walkerVars, up, storeVars, log, fatal >>
  /\ UNCHANGED << out, elsewhere >>

\* Mutant of ReadFail: the read has no try around it and its error ends the
\* run like any other.
ReadFailThrows ==
  /\ pc = "read"
  /\ Throw
  /\ UNCHANGED << conn, closeCalls, fsVars, walkerVars, storeVars, fatal >>
  /\ UNCHANGED elsewhere

\* Lines 66-69: readFileSync throws; processFile logs and returns null, and
\* the loop of the walker goes on.
ReadFail ==
  /\ pc = "read"
  /\ \A i \in EarlierCalls : log[i].st = "skipped"
  /\ log' = SetOutcome(log, "skipped")
  /\ pf' = NoFile
  /\ pc' = "forFile"
  /\ UNCHANGED << clientVars, fsVars, walkerVars, up, storeVars, fatal >>
  /\ out' = Append(out, FileLine("error", "FAILED: Could not read file. Skipping.", pf.filename))
  /\ UNCHANGED elsewhere

\* Line 72: sharp(originalBuffer).metadata() resolves.
SharpMetadata ==
  /\ pc = "metadata"
  /\ pf' = [pf EXCEPT !.sharpMeta = [width |-> pf.originalBuffer.width]]
  /\ pc' = "thumb"
  /\ UNCHANGED << clientVars, fsVars, walkerVars, up, storeVars, log, fatal >>
  /\ UNCHANGED << out, elsewhere >>

\* Lines 74-77: the thumbnail buffer; its size in chunks is the encoder's.
EncodeThumb ==
  /\ pc = "thumb"
  /\ \E n \in 1..MaxChunks :
       pf' = [pf EXCEPT !.thumbBuffer =
                [ width |-> ResizeNoEnlarge(pf.sharpMeta.width, ThumbWidth),
                  chunks |-> n ]]
  /\ pc' = "full"
  /\ UNCHANGED << clientVars, fsVars, walkerVars, up, storeVars, log, fatal >>
  /\ UNCHANGED << out, elsewhere >>

\* Lines 79-82: the full buffer.
EncodeFull ==
  /\ pc = "full"
  /\ \E n \in 1..MaxChunks :
       pf' = [pf EXCEPT !.fullBuffer =
                [ width |-> ResizeNoEnlarge(pf.sharpMeta.width, FullWidth),
                  chunks |-> n ]]
  /\ pc' = "lqip"
  /\ UNCHANGED << clientVars, fsVars, walkerVars, up, storeVars, log, fatal >>
  /\ UNCHANGED << out, elsewhere >>

\* Lines 84-89: the placeholder, kept inline as a data URI.
EncodeLqip ==
  /\ pc = "lqip"
  /\ pf' = [pf EXCEPT !.lqip =
              [ mime |-> "image/webp",
                width |-> Resize(pf.sharpMeta.width, LqipWidth) ]]
  /\ pc' = "uploadThumb"
  /\ UNCHANGED << clientVars, fsVars, walkerVars, up, storeVars, log, fatal >>
  /\ UNCHANGED << out, elsewhere >>

\* One of the four sharp calls rejects (the bytes are no decodable image):
\* processFile has no try around them.
SharpFail ==
  /\ pc \in { "metadata", "thumb", "full", "lqip" }
  /\ fatal' = "sharp"
  /\ Throw
  /\ UNCHANGED << conn, closeCalls, fsVars, walkerVars, storeVars >>
  /\ UNCHANGED elsewhere

\* ------------------------------------------------ uploadBufferToGridFS
ThumbSuffix == <<"-", "t", "h", "u", "m", "b", ".", "w", "e", "b", "p">>
FullSuffix == <<"-", "f", "u", "l", "l", ".", "w", "e", "b", "p">>

\* Mutant of UploadArgs: the second call was copied from the first and keeps
\* its variant tag.
UploadArgsBothThumbnail ==
  IF pc = "uploadThumb"
    THEN [ buffer |-> pf.thumbBuffer,
           filename |-> pf.filename \o ThumbSuffix,
           metadata |-> [ category |-> pf.category,
                          subcategory |-> pf.subcategory,
                          subsubcategory |-> pf.subsubcategory,
                          variant |-> "thumbnail" ],
           contentType |-> "image/webp" ]
    ELSE [ buffer |-> pf.fullBuffer,
           filename |-> pf.filename \o FullSuffix,
           metadata |-> [ category |-> pf.category,
                          subcategory |-> pf.subcategory,
                          subsubcategory |-> pf.subsubcategory,
                          variant |-> "thumbnail" ],
           contentType |-> "image/webp" ]

\* Lines 93-95 and 97-99: the arguments of the two calls.
UploadArgs ==
  IF pc = "uploadThumb"
    THEN [ buffer |-> pf.thumbBuffer,
           filename |-> pf.filename \o ThumbSuffix,
           metadata |-> [ category |-> pf.category,
                          subcategory |-> pf.subcategory,
                          subsubcategory |-> pf.subsubcategory,
                          variant |-> "thumbnail" ],
           contentType |-> "image/webp" ]
    ELSE [ buffer |-> pf.fullBuffer,
           filename |-> pf.filename \o FullSuffix,
           metadata |-> [ category |-> pf.category,
                          subcategory |-> pf.subcategory,
                          subsubcategory |-> pf.subsubcategory,
                          variant |-> "full" ],
           contentType |-> "image/webp" ]

\* Lines 30-45: bucket.openUploadStream gives the stream its ObjectId and the
\* pipeline starts to feed it the buffer.
OpenUpload ==
  /\ pc \in { "uploadThumb", "uploadFull" }
  /\ up = NoUpload
  /\ up' = [ id |-> nextId,
             filename |-> UploadArgs.filename,
             metadata |-> UploadArgs.metadata,
             contentType |-> UploadArgs.contentType,
             length |-> UploadArgs.buffer.chunks,
             written |-> 0 ]
  /\ nextId' = nextId + 1
  /\ UNCHANGED << pc, clientVars, fsVars, walkerVars, pf, bucketFiles, bucketChunks,
                  imagesMeta, log, fatal >>
  /\ UNCHANGED << out, elsewhere >>

\* The stream writes its next chunk to images.chunks.
WriteChunk ==
  /\ up # NoUpload
  /\ up.written < up.length
  /\ bucketChunks' = bucketChunks \cup { [files_id |-> up.id, n |-> up.written] }
  /\ up' = [up EXCEPT !.written = @ + 1]
  /\ UNCHANGED << pc, clientVars, fsVars, walkerVars, pf, nextId, bucketFiles,
                  imagesMeta, log, fatal >>
  /\ UNCHANGED << out, elsewhere >>

\* Mutant of StreamError: the upload is wrapped in a retry; after a failed
\* write a new stream is opened for the same buffer.
StreamErrorRetried ==
  /\ up # NoUpload
  /\ up' = NoUpload
  /\ UNCHANGED << pc, clientVars, fsVars, walkerVars, pf, storeVars, log, fatal, out >>
  /\ UNCHANGED elsewhere

\* A write of the stream fails, before or after some chunks: the pipeline
\* rejects and line 42 throws.  The chunks already written stay.
StreamError ==
  /\ up # NoUpload
  /\ fatal' = "upload"
  /\ Throw
  /\ UNCHANGED << conn, closeCalls, fsVars, walkerVars, storeVars >>
  /\ UNCHANGED elsewhere

\* Mutant of PipelineDone: the pipeline is not awaited, the function goes on
\* whatever has been written.
PipelineNotAwaited(u) == TRUE

\* The pipeline of line 42 resolves once every chunk is written.
PipelineDone(u) == u.written = u.length

\* Mutant of UploadReturn: the check of line 48 is missing.
UploadReturnUnchecked(fileMetadata) == [threw |-> FALSE, value |-> fileMetadata]

\* Lines 47-52: what the function does with the value captured from 'finish'.
UploadReturn(fileMetadata) ==
  IF fileMetadata = Undefined
    THEN [threw |-> TRUE]
    ELSE [threw |-> FALSE, value |-> fileMetadata]

\* The document the stream writes to images.files when it ends.
FilesDoc(u) ==
  [ _id |-> u.id,
    filename |-> u.filename,
    length |-> u.length,
    contentType |-> u.contentType,
    metadata |-> u.metadata ]

\* The identifier of a returned file object, 0 when it carries none.
IdOf(file) == IF file = Undefined THEN 0 ELSE file._id

\* Lines 37-52 and the assignment of line 93 or 97: the stream writes the
\* files document and emits 'finish', with the document or (depending on the
\* driver) with nothing; the pipeline resolves and the function returns the
\* captured value or throws.
FinishUpload ==
  /\ up # NoUpload
  /\ PipelineDone(up)
  /\ bucketFiles' = Append(bucketFiles, FilesDoc(up))
  /\ up' = NoUpload
  /\ \E fileMetadata \in { FilesDoc(up), Undefined } :
       LET r == UploadReturn(fileMetadata)
       IN /\ fatal' = IF fileMetadata = Undefined THEN "finish" ELSE fatal
          /\ IF r.threw
               THEN /\ TopLevelCatch
                    /\ log' = SetOutcome(log, "failed")
                    /\ pf' = NoFile
               ELSE IF pc = "uploadThumb"
                 THEN /\ pf' = [pf EXCEPT !.thumbFile = r.value]
                      /\ log' = [log EXCEPT ![Len(log)].thumbId = IdOf(r.value)]
                      /\ pc' = "uploadFull"
                      /\ UNCHANGED << exitCode, out >>
                 ELSE /\ pf' = [pf EXCEPT !.fullFile = r.value]
                      /\ log' = [log EXCEPT ![Len(log)].fullId = IdOf(r.value)]
                      /\ pc' = "insert"
                      /\ UNCHANGED << exitCode, out >>
  /\ UNCHANGED << conn, closeCalls, fsVars, walkerVars, nextId, bucketChunks,
                  imagesMeta >>
  /\ UNCHANGED elsewhere

\* ---------------------------------------------------- metadata insertion
\* Mutant of MetaDoc: the references are identifiers made up for the
\* document, not the ones the uploads returned.
MetaDocFreshIds(p, id) ==
  [ _id |-> id,
    filename |-> p.filename,
    alt |-> StripExt(p.filename),
    category |-> p.category,
    subcategory |-> p.subcategory,
    subsubcategory |-> OrNull(p.subsubcategory),
    variants |-> [ thumbnailId |-> id + 1, fullId |-> id + 2 ],
    lqip |-> p.lqip,
    original |-> [ width |-> p.sharpMeta.width ] ]

\* Lines 103-120: the document built from the locals of processFile; _id is
\* the ObjectId the driver gives it.
MetaDoc(p, id) ==
  [ _id |-> id,
    filename |-> p.filename,
    alt |-> StripExt(p.filename),
    category |-> p.category,
    subcategory |-> p.subcategory,
    subsubcategory |-> OrNull(p.subsubcategory),
    variants |-> [ thumbnailId |-> p.thumbFile._id, fullId |-> p.fullFile._id ],
    lqip |-> p.lqip,
    original |-> [ width |-> p.sharpMeta.width ] ]

\* Mutant of InsertMeta: the document is written with an upsert keyed by the
\* file's name and place, so a file recorded before gets no second document.
InsertMetaUpsert ==
  /\ pc = "insert"
  /\ imagesMeta' =
       IF \E k \in 1..Len(imagesMeta) :
            /\ imagesMeta[k].filename = pf.filename
            /\ imagesMeta[k].category = pf.category
            /\ imagesMeta[k].subcategory = pf.subcategory
            /\ imagesMeta[k].subsubcategory = OrNull(pf.subsubcategory)
         THEN imagesMeta
         ELSE Append(imagesMeta, MetaDoc(pf, nextId))
  /\ nextId' = nextId + 1
  /\ log' = SetOutcome(log, "done")
  /\ pf' = NoFile
  /\ pc' = "forFile"
  /\ UNCHANGED << clientVars, fsVars, walkerVars, up, bucketFiles, bucketChunks,
                  fatal >>
  /\ out' = Append(out, FileLine("log", "Success: inserted.", pf.filename))
  /\ UNCHANGED elsewhere

\* Lines 122-124: insertOne resolves; processFile returns the inserted id.
InsertMeta ==
  /\ pc = "insert"
  /\ imagesMeta' = Append(imagesMeta, MetaDoc(pf, nextId))
  /\ nextId' = nextId + 1
  /\ log' = SetOutcome(log, "done")
  /\ pf' = NoFile
  /\ pc' = "forFile"
  /\ UNCHANGED << clientVars, fsVars, walkerVars, up, bucketFiles, bucketChunks,
                  fatal >>
  /\ out' = Append(out, FileLine("log", "Success: inserted.", pf.filename))
  /\ UNCHANGED elsewhere

\* Mutant of InsertFail: the insert has a try around it like the read, and
\* the walker goes on with the next file.
InsertFailSkips ==
  /\ pc = "insert"
  /\ log' = SetOutcome(log, "skipped")
  /\ pf' = NoFile
  /\ pc' = "forFile"
  /\ UNCHANGED << clientVars, fsVars, walkerVars, up, storeVars, fatal, out >>
  /\ UNCHANGED elsewhere

\* Line 122: insertOne rejects; no document is written.
InsertFail ==
  /\ pc = "insert"
  /\ fatal' = "insert"
  /\ Throw
  /\ UNCHANGED << conn, closeCalls, fsVars, walkerVars, storeVars >>
  /\ UNCHANGED elsewhere

\* ------------------------------------------------------------ second run
\* The script is started again after a run that ended with status 0: a new
\* process and a new client, line 190 anew, over the same directory tree and
\* the stores as the first run left them.  The ObjectIds of the driver are
\* never reused.
Rerun ==
  /\ pc = "exited"
  /\ exitCode = 0
  /\ prev = NoRun
  /\ nodes <= MaxRerunNodes
  /\ prev' = [ imagesMeta |-> imagesMeta, bucketFiles |-> bucketFiles,
               bucketChunks |-> bucketChunks, calls |-> Len(log) ]
  /\ pc' = "connect"
  /\ conn' = "created"
  /\ closeCalls' = 0
  /\ exitCode' = -1
  /\ nodes' = 0
  /\ listCalls' = 0
  /\ leaf' = <<>>
  /\ out' = <<>>
  /\ UNCHANGED << fs, categories, subcategories, subsubdirs, files, category, subcat,
                  subsub, pf, up, storeVars, log, fatal, serverVars >>

\* ------------------------------------------------------------- server.js
\* Everything the server does not write: the ingestion script and the stores.
ingestVars ==
  << pc, clientVars, fsVars, walkerVars, pf, up, storeVars, log, fatal, out, prev >>

\* The stores as one run of the script over R/a.jpg leaves them: two blobs of
\* one chunk each and the record that references them.
StoredArgs(variant, suffix) ==
  [ id |-> IF variant = "thumbnail" THEN 1 ELSE 2,
    filename |-> <<"a", ".", "j", "p", "g">> \o suffix,
    metadata |-> [ category |-> <<"R">>, subcategory |-> Null,
                   subsubcategory |-> Null, variant |-> variant ],
    contentType |-> "image/webp",
    length |-> 1,
    written |-> 1 ]

StoredFiles ==
  << FilesDoc(StoredArgs("thumbnail", ThumbSuffix)), FilesDoc(StoredArgs("full", FullSuffix)) >>

StoredMeta ==
  << MetaDoc([ filename |-> <<"a", ".", "j", "p", "g">>,
               category |-> <<"R">>,
               subcategory |-> Null,
               subsubcategory |-> Null,
               sharpMeta |-> [width |-> 400],
               lqip |-> [mime |-> "image/webp", width |-> LqipWidth],
               thumbFile |-> StoredFiles[1],
               fullFile |-> StoredFiles[2] ], 3) >>

\* The server process right after `node server.js` has run the module: start()
\* waits for client.connect() (line 19), app.listen has been called (line 76),
\* db and bucket are declared and not assigned (line 15).
InitServer ==
  /\ pc = "connect"
  /\ conn = "created"
  /\ closeCalls = 0
  /\ exitCode = -1
  /\ nodes = 0
  /\ listCalls = 0
  /\ categories = <<>>
  /\ subcategories = <<>>
  /\ subsubdirs = <<>>
  /\ files = <<>>
  /\ category = Null
  /\ subcat = Null
  /\ subsub = Null
  /\ pf = NoFile
  /\ up = NoUpload
  /\ nextId = 4
  /\ bucketFiles = StoredFiles
  /\ bucketChunks = { [files_id |-> 1, n |-> 0], [files_id |-> 2, n |-> 0] }
  /\ imagesMeta = StoredMeta
  /\ log = <<>>
  /\ fatal = "none"
  /\ fs = {}
  /\ leaf = <<>>
  /\ out = <<>>
  /\ prev = NoRun
  /\ sproc = "connecting"
  /\ db = Undefined
  /\ bucket = Undefined
  /\ req = NoReq
  /\ served = <<>>

\* ObjectId.prototype.toString: the hexadecimal string of an identifier.
IdToString(id) == [hex |-> id]

\* The :fileId values of the requests: a string that is no ObjectId, the
\* strings of the ids of the two blobs and of an id no blob has.
RequestIds == { [junk |-> TRUE], IdToString(1), IdToString(2), IdToString(3) }

\* new ObjectId(fileId) throws for a string that is not one.
IsObjectId(str) == "hex" \in DOMAIN str
ParseObjectId(str) == str.hex

\* The server process runs: app.listen (line 76) accepts requests from the
\* moment the module has been run, whatever start() has done so far.
Alive == sproc \in { "connecting", "ready" }

\* A request as the handler has just received it: nothing sent.
NewRequest(route, id) ==
  [ route |-> route,
    id |-> id,
    dbSeen |-> [unused |-> TRUE], \* the value of db where the handler used it
    stage |-> "handler",
    status |-> 0,            \* the status line sent, 0 when none
    headersSent |-> FALSE,
    contentType |-> "",      \* res.setHeader("Content-Type", ...)
    cacheControl |-> "",     \* res.setHeader("Cache-Control", ...)
    length |-> 0,            \* chunks the blob has
    sent |-> 0,              \* chunks piped into the response
    body |-> "",
    json |-> <<>>,           \* the documents of res.json
    responses |-> 0,         \* responses completed
    lateHeaders |-> FALSE,   \* a status or header was set after the head went out
    fault |-> "none" ]

\* res.status(n).send(...), res.sendStatus(n) or res.json(...) on a response
\* whose head has not been sent: status line, headers and body go out.
Respond(r, status, body) ==
  [r EXCEPT !.status = status, !.headersSent = TRUE, !.body = body,
            !.responses = @ + 1, !.stage = "done"]

\* Lines 17-22: client.connect() resolves; db and bucket are assigned.
StartConnected ==
  /\ sproc = "connecting"
  /\ db' = [handle |-> "db"]
  /\ bucket' = [handle |-> "bucket"]
  /\ sproc' = "ready"
  /\ UNCHANGED << req, served, ingestVars >>

\* Line 24: client.connect() rejects; process.exit(1).
StartFailed ==
  /\ sproc = "connecting"
  /\ sproc' = "exited"
  /\ UNCHANGED << db, bucket, req, served, ingestVars >>

\* The handler's promise rejects and nothing handles it: Express 4 does not
\* look at the promise of an async handler, so no response is sent; the
\* process ends or goes on, depending on the Node version's default for
\* unhandled rejections.
Unhandled(r, fault) ==
  /\ served' = Append(served, [r EXCEPT !.fault = fault, !.stage = "threw"])
  /\ req' = NoReq
  /\ sproc' \in { sproc, "exited" }

\* Lines 27-33: GET /api/metadata; db.collection(...) is the first use of db.
MetadataArrives ==
  /\ Alive
  /\ req = NoReq
  /\ Len(served) < MaxRequests
  /\ LET r == [NewRequest("metadata", [none |-> TRUE]) EXCEPT !.dbSeen = db]
     IN IF db = Undefined
          THEN Unhandled(r, "TypeError")
          ELSE /\ req' = [r EXCEPT !.stage = "toArray"]
               /\ UNCHANGED << served, sproc >>
  /\ UNCHANGED << db, bucket, ingestVars >>

\* find({}).sort({ createdAt: -1 }): the newest document first.
RECURSIVE NewestFirst(_)
NewestFirst(docs) ==
  IF docs = <<>> THEN <<>>
  ELSE NewestFirst(Tail(docs)) \o << Head(docs) >>

\* Lines 36-46: the identifiers of a document as strings.
OutDoc(r) ==
  [r EXCEPT !._id = IdToString(r._id),
            !.variants = [ thumbnailId |-> IdToString(r.variants.thumbnailId),
                           fullId |-> IdToString(r.variants.fullId) ]]

\* Lines 34-47: cursor.toArray() resolves; res.json(out).
MetadataDone ==
  /\ Alive
  /\ req # NoReq
  /\ req.stage = "toArray"
  /\ LET docs == NewestFirst(imagesMeta)
     IN served' = Append(served,
                    [Respond(req, 200, "json")
                       EXCEPT !.json = [i \in 1..Len(docs) |-> OutDoc(docs[i])]])
  /\ req' = NoReq
  /\ UNCHANGED << sproc, db, bucket, ingestVars >>

\* Lines 34 and 59: the awaited query rejects (the connection is lost); no
\* handler has a try around it.
QueryFails ==
  /\ Alive
  /\ req # NoReq
  /\ req.stage \in { "toArray", "findOne" }
  /\ Unhandled(req, "query")
  /\ UNCHANGED << db, bucket, ingestVars >>

\* Lines 52-58: GET /api/file/:fileId; a string that is no ObjectId is
\* answered with 400 before db is used, otherwise db.collection(...) is.
FileArrives(id) ==
  /\ Alive
  /\ req = NoReq
  /\ Len(served) < MaxRequests
  /\ IF ~IsObjectId(id)
       THEN /\ served' = Append(served, Respond(NewRequest("file", id), 400, "bad id"))
            /\ UNCHANGED << req, sproc >>
       ELSE LET r == [NewRequest("file", id) EXCEPT !.dbSeen = db]
            IN IF db = Undefined
                 THEN Unhandled(r, "TypeError")
                 ELSE /\ req' = [r EXCEPT !.stage = "findOne"]
                      /\ UNCHANGED << served, sproc >>
  /\ UNCHANGED << db, bucket, ingestVars >>

\* filesColl.findOne({ _id }): the files document of the blob, or null.
FindOne(id) ==
  LET hits == { k \in 1..Len(bucketFiles) : bucketFiles[k]._id = id }
  IN IF hits = {} THEN Null ELSE bucketFiles[CHOOSE k \in hits : TRUE]

\* Lines 59-73: findOne resolves.  Without a document the answer is 404;
\* with one the two headers are set and the download stream is piped into the
\* response.
FindOneDone ==
  /\ Alive
  /\ req # NoReq
  /\ req.stage = "findOne"
  /\ LET fileDoc == FindOne(ParseObjectId(req.id))
     IN IF fileDoc = Null
          THEN /\ served' = Append(served, Respond(req, 404, "file not found"))
               /\ req' = NoReq
          ELSE /\ req' = [req EXCEPT !.stage = "streaming",
                                     !.contentType =
                                        IF fileDoc.contentType = "" THEN "image/webp"
                                        ELSE fileDoc.contentType,
                                     !.cacheControl = "public, max-age=31536000, immutable",
                                     !.length = fileDoc.length]
               /\ UNCHANGED served
  /\ UNCHANGED << sproc, db, bucket, ingestVars >>

\* Line 72: the download stream passes the next chunk on; the first write
\* sends the status line (200) and the headers.
StreamChunk ==
  /\ Alive
  /\ req # NoReq
  /\ req.stage = "streaming"
  /\ req.sent < req.length
  /\ [files_id |-> ParseObjectId(req.id), n |-> req.sent] \in bucketChunks
  /\ req' = [req EXCEPT !.sent = @ + 1, !.status = 200, !.headersSent = TRUE]
  /\ UNCHANGED << served, sproc, db, bucket, ingestVars >>

\* Line 72: the download stream ends and pipe ends the response.
StreamEnd ==
  /\ Alive
  /\ req # NoReq
  /\ req.stage = "streaming"
  /\ req.sent = req.length
  /\ served' = Append(served, [req EXCEPT !.status = 200, !.headersSent = TRUE,
                                         !.body = "bytes", !.responses = @ + 1,
                                         !.stage = "done"])
  /\ req' = NoReq
  /\ UNCHANGED << sproc, db, bucket, ingestVars >>

\* Lines 68-71: the download stream emits 'error' and the handler calls
\* res.sendStatus(500).  Before the first chunk that is the response.  After
\* it the head is out with status 200: setting a header throws
\* ERR_HTTP_HEADERS_SENT inside the 'error' listener, nothing catches it and
\* the process ends with the response cut off.
DownloadError ==
  /\ Alive
  /\ req # NoReq
  /\ req.stage = "streaming"
  /\ IF ~req.headersSent
       THEN /\ served' = Append(served,
                            [Respond(req, 500, "Internal Server Error")
                               EXCEPT !.fault = "stream"])
            /\ sproc' = sproc
       ELSE /\ served' = Append(served,
                            [req EXCEPT !.fault = "stream", !.lateHeaders = TRUE,
                                        !.stage = "crashed"])
            /\ sproc' = "exited"
  /\ req' = NoReq
  /\ UNCHANGED << db, bucket, ingestVars >>

NextServer ==
  \/ StartConnected
  \/ StartFailed
  \/ MetadataArrives
  \/ MetadataDone
  \/ QueryFails
  \/ \E id \in RequestIds : FileArrives(id)
  \/ FindOneDone
  \/ StreamChunk
  \/ StreamEnd
  \/ DownloadError

ServerSpec == InitServer /\ [][NextServer]_vars

\* ---------------------------------------------------------- specification
Next ==
  \/ Connect
  \/ ConnectFail
  \/ ConnectCatch
  \/ ListRoot
  \/ EnterCategory
  \/ EnterSubcat
  \/ EnterSubsub
  \/ ListFail
  \/ LeaveLeaf
  \/ LeaveSubcat
  \/ LeaveCategory
  \/ Complete
  \/ StartFile
  \/ ReadFile
  \/ ReadFail
  \/ SharpMetadata
  \/ EncodeThumb
  \/ EncodeFull
  \/ EncodeLqip
  \/ SharpFail
  \/ OpenUpload
  \/ WriteChunk
  \/ StreamError
  \/ FinishUpload
  \/ InsertMeta
  \/ InsertFail

Spec == Init /\ [][Next]_vars

\* Every awaited call settles (the driver's timeouts of lines 130-132 bound
\* the waits) and the synchronous steps run: the script never stops while a
\* step is enabled.
FairSpec == Spec /\ WF_vars(Next)

\* The script at line 157 with one image of width w, the only entry of the
\* only category, about to be handed to processFile.
ImageOfWidth(w) ==
  [name |-> <<"a", ".", "j", "p", "g">>, isDirectory |-> FALSE, width |-> w]

InitWidths ==
  \E w \in 1..MaxWidth :
    /\ pc = "forFile"
    /\ conn = "connected"
    /\ closeCalls = 0
    /\ exitCode = -1
    /\ nodes = 2
    /\ listCalls = 2
    /\ categories = <<>>
    /\ subcategories = <<>>
    /\ subsubdirs = <<>>
    /\ files = << ImageOfWidth(w) >>
    /\ category = <<"R">>
    /\ subcat = Null
    /\ subsub = Null
    /\ pf = NoFile
    /\ up = NoUpload
    /\ nextId = 1
    /\ bucketFiles = <<>>
    /\ bucketChunks = {}
    /\ imagesMeta = <<>>
    /\ log = <<>>
    /\ fatal = "none"
    /\ fs = { [path |-> <<>>, listing |-> << EntryPool[1] >>],
              [path |-> <<"R">>, listing |-> << ImageOfWidth(w) >>] }
    /\ leaf = <<"R">>
    /\ out = << Line("log", "Successfully connected to MongoDB.") >>
    /\ prev = NoRun
    /\ sproc = "connecting"
    /\ db = Undefined
    /\ bucket = Undefined
    /\ req = NoReq
    /\ served = <<>>

\* Lines 59-89 for that image: it is read and its variants are encoded.
NextWidths ==
  \/ StartFile
  \/ ReadFile
  \/ SharpMetadata
  \/ EncodeThumb
  \/ EncodeFull
  \/ EncodeLqip

WidthSpec == InitWidths /\ [][NextWidths]_vars

\* The script run once and, after a clean end, once more.
NextRerun == Next \/ Rerun
RerunSpec == Init /\ [][NextRerun]_vars

TypeOK ==
  /\ exitCode \in { -1, 0, 1 }
  /\ nodes \in 0..MaxNodes
  /\ (pc = "exited") = (exitCode # -1)

\* ------------------------------------------------------------ properties
Last(l) == l[Len(l)]

Terminal == { "done", "skipped", "failed" }

\* The failures that end a file's processing after it was read.
FileFaults == { "sharp", "upload", "finish", "insert" }

\* A blob is fully written: its files document exists and so does every one
\* of the chunks the document counts.
BlobComplete(id) ==
  \E k \in 1..Len(bucketFiles) :
    /\ bucketFiles[k]._id = id
    /\ \A n \in 0..(bucketFiles[k].length - 1) :
         [files_id |-> id, n |-> n] \in bucketChunks

\* The record r was written for the processFile call e.
RecordFor(r, e) ==
  /\ r.filename = e.filename
  /\ r.category = e.category
  /\ r.subcategory = e.subcategory
  /\ r.subsubcategory = e.subsubcategory

\* A chunk lies in the store for which no files document was written.
OrphanChunk == \E c \in bucketChunks : \A k \in 1..Len(bucketFiles) : bucketFiles[k]._id # c.files_id

\* C1: every record of the metadata index references, as thumbnailId and as
\* fullId, a blob that is fully written, and the two identifiers are the ones
\* the two uploadBufferToGridFS calls of its file returned.
C1_RecordsReferenceWrittenBlobs ==
  \A i \in 1..Len(imagesMeta) :
    /\ BlobComplete(imagesMeta[i].variants.thumbnailId)
    /\ BlobComplete(imagesMeta[i].variants.fullId)
    /\ \E j \in 1..Len(log) :
         /\ log[j].thumbId # 0
         /\ log[j].fullId # 0
         /\ log[j].thumbId = imagesMeta[i].variants.thumbnailId
         /\ log[j].fullId = imagesMeta[i].variants.fullId

\* A record has been inserted.
C1_Witness == Len(imagesMeta) >= 1

\* C2: a file that failed at decoding, an upload or the insert is the last one
\* the run touched: the process has exited with status 1, no record exists for
\* the file, and nothing is in flight.
C2_FailureAbortsRun ==
  \A i \in 1..Len(log) :
    log[i].st = "failed" =>
      /\ i = Len(log)
      /\ fatal \in FileFaults
      /\ pc = "exited"
      /\ exitCode = 1
      /\ pf = NoFile
      /\ up = NoUpload
      /\ \A k \in 1..Len(imagesMeta) : ~RecordFor(imagesMeta[k], log[i])

\* A sharp call failed on a file while a readable file was still queued
\* behind it, and the run is over.
C2_Witness ==
  /\ Len(log) >= 1
  /\ Last(log).st = "failed"
  /\ fatal = "sharp"
  /\ pc = "exited"
  /\ \E i \in 1..Len(files) : ~files[i].isDirectory

\* What a skipped file leaves behind: no identifier, no record.
SkipInv ==
  /\ \A i \in 1..Len(log) :
       log[i].st = "skipped" =>
         /\ log[i].thumbId = 0
         /\ log[i].fullId = 0
         /\ \A k \in 1..Len(imagesMeta) : ~RecordFor(imagesMeta[k], log[i])
  /\ (pc = "exited" /\ fatal = "none") =>
       /\ exitCode = 0
       /\ files = <<>>
       /\ \A i \in 1..Len(log) : log[i].st \in { "done", "skipped" }
       /\ \A i \in 1..Len(log) :
            log[i].st = "done" =>
              Cardinality({ k \in 1..Len(imagesMeta) : RecordFor(imagesMeta[k], log[i]) }) = 1
       /\ Len(imagesMeta) = Cardinality({ i \in 1..Len(log) : log[i].st = "done" })

\* The step taken when readFileSync fails: the file is marked skipped, the
\* stores and the queue stay as they are and the loop is back at its head.
SkipStep ==
  (pc = "read" /\ pc' # "metadata") =>
    /\ Last(log').st = "skipped"
    /\ pc' = "forFile"
    /\ UNCHANGED << storeVars, walkerVars, exitCode >>

\* C3: a file whose read fails is skipped: no blob and no record for it, the
\* stores unchanged, the walker back at the next file; and a run with no
\* other failure ends with status 0 and one record for every file it read.
C3_UnreadableFileSkipped == []SkipInv /\ [][SkipStep]_vars

\* A file was skipped, a later file was ingested and the run ended cleanly.
C3_Witness ==
  /\ pc = "exited"
  /\ exitCode = 0
  /\ \E i, j \in 1..Len(log) : i < j /\ log[i].st = "skipped" /\ log[j].st = "done"

\* C4: an identifier returned by uploadBufferToGridFS names a blob whose files
\* document and chunks are all written; an upload whose stream failed returned
\* none and ended the run, whatever it had written.
C4_UploadReturnsAfterFlush ==
  /\ \A i \in 1..Len(log) :
       /\ log[i].thumbId # 0 => BlobComplete(log[i].thumbId)
       /\ log[i].fullId # 0 => BlobComplete(log[i].fullId)
  /\ pf # NoFile =>
       /\ pf.thumbFile # Undefined => BlobComplete(pf.thumbFile._id)
       /\ pf.fullFile # Undefined => BlobComplete(pf.fullFile._id)
  /\ fatal = "upload" =>
       /\ Last(log).st = "failed"
       /\ Last(log).fullId = 0
       /\ \A c \in bucketChunks :
            (\A k \in 1..Len(bucketFiles) : bucketFiles[k]._id # c.files_id) =>
              c.files_id \notin { Last(log).thumbId, Last(log).fullId }
       /\ pc = "exited"
       /\ exitCode = 1

\* The thumbnail upload returned its identifier; the full upload failed after
\* a chunk of it had been written.
C4_Witness ==
  /\ fatal = "upload"
  /\ Last(log).thumbId # 0
  /\ OrphanChunk

\* C5: when 'finish' delivered nothing the call threw and the run ended; the
\* file objects processFile holds after an upload carry an identifier.
C5_NoIdentifierMeansError ==
  /\ fatal = "finish" =>
       /\ Last(log).st = "failed"
       /\ Last(log).fullId = 0
       /\ pc = "exited"
       /\ exitCode = 1
  /\ pf # NoFile =>
       /\ pc \in { "uploadFull", "insert" } =>
            pf.thumbFile # Undefined /\ pf.thumbFile._id > 0
       /\ pc = "insert" => pf.fullFile # Undefined /\ pf.fullFile._id > 0

\* An upload was written completely, its 'finish' delivered nothing and the
\* run ended.
C5_Witness ==
  /\ fatal = "finish"
  /\ Len(bucketFiles) >= 1
  /\ pc = "exited"

\* C6: after a failed connection nothing was listed, read, uploaded or
\* recorded, the script is in the catch block of line 137 or has exited, and
\* when it has exited the status is 1.
C6_ConnectionFailureAbortsFirst ==
  conn = "failed" =>
    /\ pc \in { "connFailed", "exited" }
    /\ pc = "exited" => exitCode = 1
    /\ listCalls = 0
    /\ fs = {}
    /\ log = <<>>
    /\ bucketFiles = <<>>
    /\ bucketChunks = {}
    /\ imagesMeta = <<>>
    /\ nextId = 1

\* The connection failed and the process has exited.
C6_Witness == conn = "failed" /\ pc = "exited"

\* The walk is over: the root was listed and no directory or file is queued.
WalkerExhausted ==
  /\ listCalls >= 1
  /\ categories = <<>>
  /\ subcategories = <<>>
  /\ subsubdirs = <<>>
  /\ files = <<>>

\* The status of a process that has exited.
ExitInv ==
  pc = "exited" =>
    /\ exitCode \in { 0, 1 }
    /\ (exitCode = 0) <=>
         /\ conn = "connected"
         /\ WalkerExhausted
         /\ \A i \in 1..Len(log) : log[i].st \in { "done", "skipped" }
    /\ fatal # "none" => exitCode = 1

RefImageNames ==
  { <<"a", ".", "j", "p", "g">>, <<"b", ".", "P", "N", "G">>,
    <<"e", ".", "J", "p", "e", "g">> }

RefHasDir(l) == \E i \in 1..Len(l) : l[i].isDirectory

\* The image entries of the listing l of directory p, from position i on.
RECURSIVE RefFiles(_, _, _)
RefFiles(p, l, i) ==
  IF i > Len(l) THEN <<>>
  ELSE (IF l[i].name \in RefImageNames
          THEN << [dir |-> p, filename |-> l[i].name] >> ELSE <<>>)
         \o RefFiles(p, l, i + 1)

\* The files a depth-first walk of the listed part of the tree discovers below
\* directory p, in listing order: the root and every category or subcategory
\* with subdirectories hand over to their subdirectories, every other
\* directory down to the third level gives its own image entries.
RECURSIVE RefTree(_)
RECURSIVE RefSubdirs(_, _, _)
RefTree(p) ==
  IF ~Listed(p) THEN <<>>
  ELSE IF Len(p) = 0 \/ (Len(p) < 3 /\ RefHasDir(ListingAt(p)))
    THEN RefSubdirs(p, ListingAt(p), 1)
    ELSE RefFiles(p, ListingAt(p), 1)

RefSubdirs(p, l, i) ==
  IF i > Len(l) THEN <<>>
  ELSE (IF l[i].isDirectory THEN RefTree(Append(p, l[i].name)) ELSE <<>>)
         \o RefSubdirs(p, l, i + 1)

\* The number of files done among the first i processFile calls.
DoneBefore(i) == Cardinality({ j \in 1..i : log[j].st = "done" })

\* C8: the files are handed to processFile in depth-first listing order, each
\* one has reached its outcome before the next is started, and the k-th
\* record of the index is the record of the k-th file that was done.
C8_RecordsInDiscoveryOrder ==
  /\ LET walk == RefTree(<<>>)
     IN /\ Len(log) <= Len(walk)
        /\ \A i \in 1..Len(log) :
             /\ log[i].dir = walk[i].dir
             /\ log[i].filename = walk[i].filename
  /\ \A i \in 1..(Len(log) - 1) : log[i].st \in Terminal
  /\ Len(imagesMeta) = DoneBefore(Len(log))
  /\ \A k \in 1..Len(imagesMeta) :
       \E i \in 1..Len(log) :
         /\ log[i].st = "done"
         /\ DoneBefore(i) = k
         /\ RecordFor(imagesMeta[k], log[i])
         /\ imagesMeta[k].variants.thumbnailId = log[i].thumbId

\* Two files of two different directories were ingested one after the other.
C8_Witness ==
  /\ Len(imagesMeta) >= 2
  /\ \E i, j \in 1..Len(log) :
       /\ i < j
       /\ log[i].st = "done"
       /\ log[j].st = "done"
       /\ log[i].dir # log[j].dir

\* The name of the k-th directory on the path dir, null below its end.
Level(dir, k) == IF Len(dir) >= k THEN dir[k] ELSE Null

\* The records written for the file of call e, by its name and the
\* directories of its path.
FileRecords(e) ==
  { k \in 1..Len(imagesMeta) :
      /\ imagesMeta[k].filename = e.filename
      /\ imagesMeta[k].category = Level(e.dir, 1)
      /\ imagesMeta[k].subcategory = Level(e.dir, 2)
      /\ imagesMeta[k].subsubcategory = Level(e.dir, 3) }

\* The blobs written for the file of call e: tagged with the directories of
\* its path and named after it.
FileBlobs(e) ==
  { k \in 1..Len(bucketFiles) :
      /\ bucketFiles[k].metadata.category = Level(e.dir, 1)
      /\ bucketFiles[k].metadata.subcategory = Level(e.dir, 2)
      /\ bucketFiles[k].metadata.subsubcategory = Level(e.dir, 3)
      /\ Len(bucketFiles[k].filename) >= Len(e.filename)
      /\ SubSeq(bucketFiles[k].filename, 1, Len(e.filename)) = e.filename }

\* C9: a file that was ingested has exactly one record and exactly two blobs,
\* one tagged thumbnail and one tagged full, whose identifiers the record
\* holds; record and blobs carry the names of the directories on the file's
\* path as category, subcategory and sub-subcategory, null where the path ends.
C9_OneRecordTwoBlobs ==
  \A i \in 1..Len(log) :
    log[i].st = "done" =>
      /\ Cardinality(FileRecords(log[i])) = 1
      /\ Cardinality(FileBlobs(log[i])) = 2
      /\ \E t, f \in FileBlobs(log[i]) :
           /\ bucketFiles[t].metadata.variant = "thumbnail"
           /\ bucketFiles[f].metadata.variant = "full"
           /\ \A k \in FileRecords(log[i]) :
                /\ imagesMeta[k].variants.thumbnailId = bucketFiles[t]._id
                /\ imagesMeta[k].variants.fullId = bucketFiles[f]._id

\* The scenario of the specification: a.jpg in R/V was ingested, and its record
\* has category R, subcategory V and no sub-subcategory.
C9_Witness ==
  \E k \in 1..Len(imagesMeta) :
    /\ imagesMeta[k].filename = <<"a", ".", "j", "p", "g">>
    /\ imagesMeta[k].category = <<"R">>
    /\ imagesMeta[k].subcategory = <<"V">>
    /\ imagesMeta[k].subsubcategory = Null
    /\ Len(bucketFiles) = 2

\* The names of the processFile calls made for the directory p, in call order.
RECURSIVE CalledIn(_, _)
CalledIn(p, i) ==
  IF i > Len(log) THEN <<>>
  ELSE (IF log[i].dir = p THEN <<log[i].filename>> ELSE <<>>) \o CalledIn(p, i + 1)

\* The names still queued for the directory p.
QueuedIn(p) == IF leaf = p THEN [i \in 1..Len(files) |-> files[i].name] ELSE <<>>

\* C10: of a category without subdirectories, the files handed or still to be
\* handed to processFile are exactly its entries with an image extension, in
\* listing order, and each is handed over with no subcategory and no
\* sub-subcategory.
C10_LeafCategoryYieldsItsImages ==
  \A d \in fs :
    (Len(d.path) = 1 /\ ~RefHasDir(d.listing)) =>
      /\ LET images == RefFiles(d.path, d.listing, 1)
         IN CalledIn(d.path, 1) \o QueuedIn(d.path)
              = [i \in 1..Len(images) |-> images[i].filename]
      /\ \A i \in 1..Len(log) :
           log[i].dir = d.path =>
             /\ log[i].category = d.path[1]
             /\ log[i].subcategory = Null
             /\ log[i].subsubcategory = Null

\* A category without subdirectories lists an image with an upper-case
\* extension and a file that is no image, and the image was ingested.
C10_Witness ==
  \E d \in fs :
    /\ Len(d.path) = 1
    /\ ~RefHasDir(d.listing)
    /\ \E i \in 1..Len(d.listing) : d.listing[i].name = <<"c", ".", "t", "x", "t">>
    /\ \E k \in 1..Len(imagesMeta) :
         /\ imagesMeta[k].filename = <<"b", ".", "P", "N", "G">>
         /\ imagesMeta[k].category = d.path[1]
         /\ imagesMeta[k].subcategory = Null

\* The names of the directories a listing holds.
DirNames(l) == { l[i].name : i \in { j \in 1..Len(l) : l[j].isDirectory } }

\* C11: of a subcategory that holds a sub-subdirectory, no file lying directly
\* in it is handed to processFile, tagged on a blob or recorded; what is
\* ingested below it lies in one of its sub-subdirectories and carries that
\* directory's name as sub-subcategory.
C11_LooseFilesOfSubcategorySkipped ==
  \A d \in fs :
    (Len(d.path) = 2 /\ RefHasDir(d.listing)) =>
      /\ \A i \in 1..Len(log) : log[i].dir # d.path
      /\ \A i \in 1..Len(log) :
           (log[i].category = d.path[1] /\ log[i].subcategory = d.path[2]) =>
             /\ Len(log[i].dir) = 3
             /\ log[i].dir[3] \in DirNames(d.listing)
             /\ log[i].subsubcategory = log[i].dir[3]
      /\ \A k \in 1..Len(imagesMeta) :
           (imagesMeta[k].category = d.path[1] /\ imagesMeta[k].subcategory = d.path[2]) =>
             imagesMeta[k].subsubcategory \in DirNames(d.listing)
      /\ \A k \in 1..Len(bucketFiles) :
           (/\ bucketFiles[k].metadata.category = d.path[1]
            /\ bucketFiles[k].metadata.subcategory = d.path[2]) =>
             bucketFiles[k].metadata.subsubcategory \in DirNames(d.listing)

\* A subcategory lists an image next to a sub-subdirectory, the
\* sub-subdirectory has been listed and the run has ended cleanly.
C11_Witness ==
  /\ pc = "exited"
  /\ exitCode = 0
  /\ \E d \in fs :
       /\ Len(d.path) = 2
       /\ RefHasDir(d.listing)
       /\ \E i \in 1..Len(d.listing) :
            ~d.listing[i].isDirectory /\ IsImage(d.listing[i].name)
       /\ \E e \in fs : Len(e.path) = 3 /\ SubSeq(e.path, 1, 2) = d.path

\* The identifiers the stores held when the second run began.
PrevIds ==
  { prev.imagesMeta[k]._id : k \in 1..Len(prev.imagesMeta) }
    \cup { prev.bucketFiles[k]._id : k \in 1..Len(prev.bucketFiles) }

\* C12: a second run over the same tree leaves every record, blob and chunk
\* of the first run as it was and gives what it adds fresh identifiers; when
\* it ends with status 0 it has added one record and two blobs for every
\* record of the first run, for the same files in the same order, so that the
\* index and the blob store hold twice what they held.
C12_SecondRunDoubles ==
  prev # NoRun =>
    LET n == Len(prev.imagesMeta)
        b == Len(prev.bucketFiles)
    IN /\ Len(imagesMeta) >= n
       /\ SubSeq(imagesMeta, 1, n) = prev.imagesMeta
       /\ Len(bucketFiles) >= b
       /\ SubSeq(bucketFiles, 1, b) = prev.bucketFiles
       /\ prev.bucketChunks \subseteq bucketChunks
       /\ \A k \in (n + 1)..Len(imagesMeta) :
            /\ imagesMeta[k]._id \notin PrevIds
            /\ imagesMeta[k].variants.thumbnailId \notin PrevIds
            /\ imagesMeta[k].variants.fullId \notin PrevIds
       /\ \A k \in (b + 1)..Len(bucketFiles) : bucketFiles[k]._id \notin PrevIds
       /\ (pc = "exited" /\ exitCode = 0) =>
            /\ Len(imagesMeta) = 2 * n
            /\ Len(bucketFiles) = 2 * b
            /\ \A k \in 1..n :
                 /\ imagesMeta[n + k].filename = imagesMeta[k].filename
                 /\ imagesMeta[n + k].category = imagesMeta[k].category
                 /\ imagesMeta[n + k].subcategory = imagesMeta[k].subcategory
                 /\ imagesMeta[n + k].subsubcategory = imagesMeta[k].subsubcategory
                 /\ imagesMeta[n + k]._id # imagesMeta[k]._id

\* Both runs ended with status 0; the first one ingested a file and skipped
\* another.
C12_Witness ==
  /\ prev # NoRun
  /\ pc = "exited"
  /\ exitCode = 0
  /\ Len(prev.imagesMeta) >= 1
  /\ \E i \in 1..prev.calls : log[i].st = "skipped"

\* C13: the thumbnail of a source of width w is w wide up to 600 and 600 wide
\* above, the full variant w wide up to 1600 and 1600 wide above: the
\* thumbnail is at most 600 wide, the full variant at most 1600, the thumbnail
\* is no wider than the full variant and neither is wider than the source.
C13_VariantWidths ==
  (pf # NoFile /\ pf.thumbBuffer # Undefined) =>
    LET w == pf.source.width
        t == pf.thumbBuffer.width
    IN /\ pf.sharpMeta.width = w
       /\ (w <= 600 => t = w) /\ (w > 600 => t = 600)
       /\ t <= 600 /\ t <= w
       /\ pf.fullBuffer # Undefined =>
            LET f == pf.fullBuffer.width
            IN /\ (w <= 1600 => f = w) /\ (w > 1600 => f = 1600)
               /\ f <= 1600 /\ f <= w
               /\ t <= f

\* Both variants of a source between the two limits are encoded: the
\* thumbnail is scaled down, the full variant keeps the width of the source.
C13_Witness ==
  /\ pf # NoFile
  /\ pf.fullBuffer # Undefined
  /\ pf.source.width > 600
  /\ pf.source.width < 1600
  /\ pf.thumbBuffer.width = 600
  /\ pf.fullBuffer.width = pf.source.width

\* The processFile calls of this run that ended with the outcome st.
CallsEnded(st) == Cardinality({ i \in 1..Len(log) : log[i].st = st })

\* C14: when the run has completed, a line of the console carries the number
\* of files processed and the number of files skipped, and the two numbers
\* are the numbers of calls that ended done and skipped.
C14_SummaryCountsReported ==
  (pc = "exited" /\ exitCode = 0) =>
    \E i \in 1..Len(out) :
      /\ { "processed", "skipped" } \subseteq DOMAIN out[i]
      /\ out[i].processed = CallsEnded("done")
      /\ out[i].skipped = CallsEnded("skipped")

\* C15: a request for a blob that the server has finished with, and whose
\* handler found db assigned and its lookup answered, got exactly one
\* response: 400 for a string that is no ObjectId, 404 when no blob has the
\* id, 500 when the download stream failed, before or after the first bytes,
\* and otherwise 200 with the blob's content type and the long-lived cache
\* header; and no status or header was set once the head had gone out.
C15_OneResponsePerFileRequest ==
  \A i \in 1..Len(served) :
    LET r == served[i]
    IN (r.route = "file" /\ r.fault \notin { "TypeError", "query" }) =>
         /\ r.responses = 1
         /\ ~r.lateHeaders
         /\ ~IsObjectId(r.id) => r.status = 400
         /\ IsObjectId(r.id) =>
              IF FindOne(ParseObjectId(r.id)) = Null THEN r.status = 404
              ELSE IF r.fault = "stream" THEN r.status = 500
              ELSE /\ r.status = 200
                   /\ r.contentType = FindOne(ParseObjectId(r.id)).contentType
                   /\ r.cacheControl = "public, max-age=31536000, immutable"

\* C20: every handler that used db, for /api/metadata or /api/file/:fileId,
\* found the handle start() assigns: none ran while db was still undefined.
C20_HandlersFindDbAssigned ==
  \A i \in 1..Len(served) :
    /\ served[i].dbSeen # Undefined
    /\ served[i].fault # "TypeError"

\* The place of a step in processFile, 0 outside processFile.
StepRank(p) ==
  CASE p = "read" -> 1 [] p = "metadata" -> 2 [] p = "thumb" -> 3
    [] p = "full" -> 4 [] p = "lqip" -> 5 [] p = "uploadThumb" -> 6
    [] p = "uploadFull" -> 7 [] p = "insert" -> 8 [] OTHER -> 0

\* No file is handed to processFile twice.
NoRepeat ==
  \A i, j \in 1..Len(log) :
    (log[i].dir = log[j].dir /\ log[i].filename = log[j].filename) => i = j

\* One step of the script, as far as it touches a file.
OrderStep ==
  /\ StepRank(pc') > 0 =>
       \/ StepRank(pc') = StepRank(pc) + 1
       \/ /\ pc' = pc
          /\ pc \in { "uploadThumb", "uploadFull" }
          /\ \/ up = NoUpload /\ up' # NoUpload /\ up'.written = 0
             \/ up # NoUpload /\ up' # NoUpload /\ up'.written = up.written + 1
  /\ (up # NoUpload /\ up' = NoUpload) => pc' # pc
  /\ (pc' = "uploadFull" /\ pc # "uploadFull") =>
       /\ pc = "uploadThumb"
       /\ log'[Len(log')].thumbId # 0
       /\ pf'.thumbFile # Undefined
  /\ (pc' = "insert" /\ pc # "insert") =>
       /\ pc = "uploadFull"
       /\ log'[Len(log')].thumbId # 0
       /\ log'[Len(log')].fullId # 0
       /\ pf'.fullFile # Undefined
  /\ imagesMeta' # imagesMeta =>
       /\ pc = "insert"
       /\ Len(imagesMeta') = Len(imagesMeta) + 1
       /\ SubSeq(imagesMeta', 1, Len(imagesMeta)) = imagesMeta
       /\ log'[Len(log')].st = "done"
  /\ Len(log') # Len(log) =>
       /\ pc = "forFile"
       /\ pc' = "read"
       /\ Len(log') = Len(log) + 1
  /\ \A i \in 1..Len(log) :
       /\ log[i].st \in Terminal => log'[i] = log[i]
       /\ (log'[i].st = "skipped" /\ log[i].st # "skipped") => pc = "read"
       /\ (log'[i].st = "done" /\ log[i].st # "done") => pc = "insert"

\* C16: a file goes through read, the sharp calls, the thumbnail upload, the
\* full upload and the insert in this order, one step at a time and each
\* once: a stream that has ended is not opened again, the full upload starts
\* only with the thumbnail's identifier in hand, the insert only with both,
\* a call that has ended is never touched again, no file is handed over
\* twice, and a call becomes skipped only out of the read.
C16_StepsInOrderOnce == []NoRepeat /\ [][OrderStep]_vars

\* A file has both its uploads behind it and is about to be recorded, after
\* another file of the run was skipped.
C16_Witness ==
  /\ pc = "insert"
  /\ log[Len(log)].thumbId # 0
  /\ log[Len(log)].fullId # 0
  /\ \E i \in 1..(Len(log) - 1) : log[i].st = "skipped"

\* C17: when the process has ended, by completion, after a failed connection
\* or after a fatal error in the middle of the run, client.close() has been
\* called exactly once; it is never called more than once.
C17_ClientClosedOnce ==
  /\ closeCalls <= 1
  /\ pc = "exited" => closeCalls = 1

\* The identifiers of the blobs of the store: of every files document and of
\* every chunk, whether or not its files document was written.
BlobIds ==
  { bucketFiles[k]._id : k \in 1..Len(bucketFiles) }
    \cup { c.files_id : c \in bucketChunks }

\* The records that reference the blob id.
ReferencedBy(id) ==
  { i \in 1..Len(imagesMeta) :
      id \in { imagesMeta[i].variants.thumbnailId, imagesMeta[i].variants.fullId } }

Unreferenced == { id \in BlobIds : ReferencedBy(id) = {} }

\* C18: in a run that began with empty stores at most two blobs are
\* referenced by no record, and they belong to the last file handed to
\* processFile; no blob is referenced by two records or twice by one; after
\* an abort at most two blobs are left unreferenced and after a completed run
\* none, the store then holding two blobs for every record.
C18_AtMostTwoOrphans ==
  /\ Cardinality(Unreferenced) <= 2
  /\ \A id \in BlobIds : Cardinality(ReferencedBy(id)) <= 1
  /\ \A i \in 1..Len(imagesMeta) :
       imagesMeta[i].variants.thumbnailId # imagesMeta[i].variants.fullId
  /\ Unreferenced # {} =>
       /\ Len(log) >= 1
       /\ log[Len(log)].st \in { "processing", "failed" }
  /\ (pc = "exited" /\ exitCode = 0) =>
       /\ Unreferenced = {}
       /\ Cardinality(BlobIds) = 2 * Len(imagesMeta)
       /\ Len(bucketFiles) = 2 * Len(imagesMeta)

\* The run was aborted by a failed insert after both blobs of the file had
\* been written: two blobs are orphaned, next to the record of an earlier file.
C18_Witness ==
  /\ pc = "exited"
  /\ fatal = "insert"
  /\ Cardinality(Unreferenced) = 2
  /\ Len(imagesMeta) >= 1

\* The names of the entries of a listing that are not directories.
FileNames(l) == { l[i].name : i \in { j \in 1..Len(l) : ~l[j].isDirectory } }

\* C19: every file handed to processFile, and so every record and blob, lies
\* directly in a listed directory one, two or three levels below the root,
\* which above the third level holds no subdirectory; nothing lying in the
\* root, in a category or subcategory that has subdirectories, or below the
\* third level is handed over, and no directory below the third level is
\* listed.
C19_OnlyLeafFilesIngested ==
  /\ \A d \in fs : Len(d.path) <= 3
  /\ \A i \in 1..Len(log) :
       /\ Len(log[i].dir) \in 1..3
       /\ Listed(log[i].dir)
       /\ Len(log[i].dir) < 3 => ~RefHasDir(ListingAt(log[i].dir))
       /\ \E j \in 1..Len(ListingAt(log[i].dir)) :
            ListingAt(log[i].dir)[j].name = log[i].filename
  /\ \A k \in 1..Len(imagesMeta) :
       \E i \in 1..Len(log) :
         /\ log[i].st = "done"
         /\ imagesMeta[k].filename = log[i].filename
         /\ imagesMeta[k].filename \in FileNames(ListingAt(log[i].dir))
         /\ imagesMeta[k].category = Level(log[i].dir, 1)
         /\ imagesMeta[k].subcategory = Level(log[i].dir, 2)
         /\ imagesMeta[k].subsubcategory = Level(log[i].dir, 3)
  /\ \A d \in fs :
       (Len(d.path) = 1 /\ RefHasDir(d.listing)) =>
         /\ \A i \in 1..Len(log) : log[i].dir # d.path
         /\ \A k \in 1..Len(imagesMeta) :
              imagesMeta[k].category = d.path[1] => imagesMeta[k].subcategory # Null
         /\ \A k \in 1..Len(bucketFiles) :
              bucketFiles[k].metadata.category = d.path[1] =>
                bucketFiles[k].metadata.subcategory # Null

\* A category lists an image next to a subdirectory; the image inside the
\* subdirectory has been recorded and the run has ended cleanly.
C19_Witness ==
  /\ pc = "exited"
  /\ exitCode = 0
  /\ \E d \in fs :
       /\ Len(d.path) = 1
       /\ RefHasDir(d.listing)
       /\ \E i \in 1..Len(d.listing) :
            ~d.listing[i].isDirectory /\ IsImage(d.listing[i].name)
       /\ \E k \in 1..Len(imagesMeta) :
            imagesMeta[k].category = d.path[1] /\ imagesMeta[k].subcategory # Null

====
